---- MODULE Spec2Model ----
\* A model of the hexing crate: axial hexagonal positions (src/src/lib.rs),
\* the neighbor helper (src/src/utils.rs) and the HashMap-backed HexLayout with
\* its pathfinding, field of view and field of move (src/src/layout.rs), and
\* the game-of-life example that drives them
\* (src/examples/game-of-life/src/main.rs).
\*
\* A HexPosition<isize> is the pair <<q, r>>.  A HexLayout<bool, isize> is a
\* function from its key set to BOOLEAN (TRUE = blocked).  Option::None is the
\* string "None".
EXTENDS Integers, Sequences, FiniteSets, TLC

VARIABLES layer, edits, op, ret,
          from, to, pc, frontier, came_from, cost_so_far, path,
          ring_args, ring_it, ring_out, ring_ret, ring_calls,
          spiral_it, spiral_out, spiral_ret, spiral_calls,
          line_it, line_out, line_ret, line_calls,
          fn_call, fn_ret,
          grid, life_it, life_pc, generation

layerVars == <<layer, edits, op, ret>>
pathVars == <<from, to, pc, frontier, came_from, cost_so_far, path>>
ringVars == <<ring_args, ring_it, ring_out, ring_ret, ring_calls>>
spiralVars == <<spiral_it, spiral_out, spiral_ret, spiral_calls>>
lineVars == <<line_it, line_out, line_ret, line_calls>>
fnVars == <<fn_call, fn_ret>>
lifeVars == <<grid, life_it, life_pc, generation>>
vars == <<layer, edits, op, ret, from, to, pc, frontier, came_from, cost_so_far, path, ring_args, ring_it, ring_out, ring_ret, ring_calls, spiral_it, spiral_out, spiral_ret, spiral_calls, line_it, line_out, line_ret, line_calls, fn_call, fn_ret, grid, life_it, life_pc, generation>>

-----------------------------------------------------------------------------
\* Bounds of the model.

\* Largest number of set/delete calls applied to a freshly constructed layer.
MaxEdits == 1

\* Largest range argument given to field_of_move and field_of_view.
MaxMove == 3

\* Largest radius given to HexPosition::ring.
MaxRadius == 3

\* Largest absolute coordinate of a ring center.
MaxCenter == 1

\* Largest number of steps given to HexPosition::rotation.
MaxTurns == 7

\* GRID_SIZE of the game-of-life example, which is 10 in main.rs: the range
\* of the grid and the radius of the spiral of initialize_grid.
GRID_SIZE == 1

\* Largest number of cells for which initialize_grid draws `true`.
MaxAlive == 3

-----------------------------------------------------------------------------
\* Program constants.

\* The range of the layer built by the pathfinding, field_of_move and
\* neighbors_unblocked doctests: HexLayout::new_from_range(3, HexPosition(0, 0)).
GridRange == 3

\* The integers of absolute value up to 2^24 are the ones every f32 holds
\* exactly: the type has 24 significant bits.
F32Exact == 16777216

\* The number of generations main computes: `for _ in 0..10`.
Generations == 10

None == "None"

ORIGIN == <<0, 0>>

-----------------------------------------------------------------------------
\* Number (lib.rs): max and abs of the coordinate scalar.

NumMax(a, b) == IF a > b THEN a ELSE b

NumAbs(a) == IF a < 0 THEN -a ELSE a

\* impl_ops!: component-wise Add for HexPosition, and Mul by a scalar.
PosAdd(a, b) == <<a[1] + b[1], a[2] + b[2]>>

PosMulScalar(a, k) == <<a[1] * k, a[2] * k>>

\* distance with the fault of leaving out the third coordinate s = -q - r.
distance_without_s(a, b) == NumMax(NumAbs(a[1] - b[1]), NumAbs(a[2] - b[2]))

\* HexPosition::distance
distance(a, b) == NumMax(NumMax(NumAbs(a[1] - b[1]), NumAbs(a[2] - b[2])), NumAbs((-a[1] - a[2]) - (-b[1] - b[2])))

\* The new position of one step of rotation, with the fault of turning
\* clockwise.
rotate_once_clockwise(self) == <<self[1] + self[2], -self[1]>>

\* Line 515: the new position of one step, Self(-self.1, self.0 + self.1).
rotate_once(self) == <<-self[2], self[1] + self[2]>>

\* HexPosition::rotation
RECURSIVE rotation(_, _)
rotation(self, n) == IF n = 0 THEN self ELSE rotation(rotate_once(self), n - 1)

\* enum HexDirection, in declaration order (the order HexDirection::iter() yields).
HexDirection == <<"Right", "UpRight", "UpLeft", "Left", "DownLeft", "DownRight">>

\* HexDirection::to_vector
to_vector(d) ==
    CASE d = "Right" -> <<1, 0>>
      [] d = "UpRight" -> <<1, -1>>
      [] d = "UpLeft" -> <<0, -1>>
      [] d = "Left" -> <<-1, 0>>
      [] d = "DownLeft" -> <<-1, 1>>
      [] d = "DownRight" -> <<0, 1>>

\* neighbors with the fault of iterating over the directions in reverse.
neighbors_reversed(pos) == [i \in 1..6 |-> PosAdd(pos, to_vector(HexDirection[7 - i]))]

\* utils::neighbors: one neighbor per direction, in iteration order.
neighbors(pos) == [i \in 1..6 |-> PosAdd(pos, to_vector(HexDirection[i]))]

-----------------------------------------------------------------------------
\* HexLayout (layout.rs).

EmptyLayer == [p \in {} |-> FALSE]

\* new_from_range with the fault of leaving out the test on s = -q - r.
new_from_range_without_s_test(range, center) ==
    LET rg == range - 1
        keys == {PosAdd(<<q, r>>, center) : <<q, r>> \in ((-rg)..rg) \X ((-rg)..rg)}
    IN [p \in keys |-> FALSE]

\* HexLayout::new_from_range with T = bool (T::default() = false).
new_from_range(range, center) ==
    LET rg == range - 1
        keys == {PosAdd(<<q, r>>, center) : <<q, r>> \in
                    {qr \in ((-rg)..rg) \X ((-rg)..rg) : (-qr[1] - qr[2]) >= -rg /\ (-qr[1] - qr[2]) <= rg}}
    IN [p \in keys |-> FALSE]

\* self.0.contains_key(&pos)
contains_key(l, pos) == pos \in DOMAIN l

\* HexLayout::get.  The Option returned is <<value>> for Some(value) and <<>>
\* for None.
get(l, pos) == IF pos \in DOMAIN l THEN <<l[pos]>> ELSE <<>>

\* HexLayout::len
len(l) == Cardinality(DOMAIN l)

\* HexLayout::is_empty
is_empty(l) == DOMAIN l = {}

\* set with the fault of keeping the value of a key that is present:
\* entry(pos).or_insert(data).
set_keeps_present(l, pos, data) == [p \in (DOMAIN l) \cup {pos} |-> IF p \in DOMAIN l THEN l[p] ELSE data]

\* HexLayout::set: HashMap::insert (the returned previous value is get(l, pos)).
set(l, pos, data) == [p \in (DOMAIN l) \cup {pos} |-> IF p = pos THEN data ELSE l[p]]

\* HexLayout::delete: HashMap::remove (the returned value is get(l, pos)).
delete(l, pos) == [p \in (DOMAIN l) \ {pos} |-> l[p]]

\* and with the fault of keeping a key only if both layers store the same
\* value at it.
and_compares_values(self, other) ==
    {pos \in DOMAIN self : contains_key(other, pos) /\ other[pos] = self[pos]}

\* HexLayout::and: the keys of self that other contains.
and(self, other) == {pos \in DOMAIN self : contains_key(other, pos)}

\* HexLayout::or: the keys of self, extended with the keys of other.
or(self, other) == (DOMAIN self) \cup (DOMAIN other)

\* HexLayout::xor: the keys of self that other lacks, extended with the keys
\* of other that self lacks.
xor(self, other) ==
    {k \in DOMAIN self : ~contains_key(other, k)} \cup {k \in DOMAIN other : ~contains_key(self, k)}

\* neighbors_unblocked with the fault of testing membership only.
neighbors_unblocked_ignores_value(l, pos) ==
    SelectSeq(neighbors(pos), LAMBDA n : n \in DOMAIN l)

\* neighbors_unblocked with the fault of taking an absent neighbor for open:
\* unwrap_or(&false).
neighbors_unblocked_absent_open(l, pos) ==
    SelectSeq(neighbors(pos), LAMBDA n : ~(IF n \in DOMAIN l THEN l[n] ELSE FALSE))

\* HexLayout::neighbors_unblocked: !self.0.get(&neighbor).unwrap_or(&true)
neighbors_unblocked(l, pos) ==
    SelectSeq(neighbors(pos), LAMBDA n : ~(IF n \in DOMAIN l THEN l[n] ELSE TRUE))

-----------------------------------------------------------------------------
\* The positions given as arguments: the keys of the largest layer.
Positions == DOMAIN new_from_range(GridRange, ORIGIN)

\* The start positions of the pathfinding calls: the center and a corner.
Sources == {ORIGIN, <<GridRange - 1, 1 - GridRange>>}

\* The layers reached from new_from_range(n, ORIGIN), n <= GridRange, by at
\* most k calls of set(p, true) or delete(p).
RECURSIVE EditedLayers(_)
EditedLayers(k) ==
    IF k = 0 THEN {new_from_range(n, ORIGIN) : n \in 0..GridRange}
    ELSE LET prev == EditedLayers(k - 1)
         IN prev \cup {set(l, p, TRUE) : l \in prev, p \in Positions}
                 \cup {delete(l, p) : l \in prev, p \in Positions}

-----------------------------------------------------------------------------
\* HexLayout::pathfinding, one action per decision of the entry checks and per
\* iteration of the `while let Some((current, _)) = frontier.pop()` loop.

\* frontier.push(item, priority) on the PriorityQueue.
push(f, item, priority) == [x \in (DOMAIN f) \cup {item} |-> IF x = item THEN priority ELSE f[x]]

\* pop with the fault of returning an item of least priority.
pop_candidates_least_priority(f) == {x \in DOMAIN f : \A y \in DOMAIN f : f[x] <= f[y]}

\* The items frontier.pop() may return: those of greatest priority.  The
\* priority_queue crate leaves the order of equal priorities unspecified.
pop_candidates(f) == {x \in DOMAIN f : \A y \in DOMAIN f : f[y] <= f[x]}

\* The frontier after pop(), with the fault of leaving the popped item in
\* the queue (peek for pop).
remove_leaves_item(f, item) == f

\* The frontier after frontier.pop() has returned item.
remove(f, item) == [x \in (DOMAIN f) \ {item} |-> f[x]]

insert(m, k, v) == [x \in (DOMAIN m) \cup {k} |-> IF x = k THEN v ELSE m[x]]

\* The body of `for next in self.neighbors_unblocked(current)` for one
\* neighbor; st is the record of frontier, came_from and cost_so_far.
visit(st, next, current, goal) ==
    IF next \in DOMAIN st.came_from THEN st
    ELSE IF current \notin DOMAIN st.cost_so_far THEN st
    ELSE LET new_cost == st.cost_so_far[current] + 1
         IN IF next \notin DOMAIN st.cost_so_far \/ new_cost < st.cost_so_far[next]
            THEN [cost_so_far |-> insert(st.cost_so_far, next, new_cost),
                  frontier |-> push(st.frontier, next, -new_cost - distance(next, goal)),
                  came_from |-> insert(st.came_from, next, current)]
            ELSE st

RECURSIVE expand(_, _, _, _, _)
\* expand with the fault of leaving the loop (break for continue) at a
\* neighbor that is already in came_from.
expand_breaks_on_known(st, nbrs, i, current, goal) ==
    IF i > Len(nbrs) THEN st
    ELSE IF nbrs[i] \in DOMAIN st.came_from THEN st
    ELSE expand(visit(st, nbrs[i], current, goal), nbrs, i + 1, current, goal)

\* The loop over the neighbors from the i-th on.  The set of one element
\* binds the record that the body has produced before the rest of the loop
\* is evaluated.
expand(st, nbrs, i, current, goal) ==
    IF i > Len(nbrs) THEN st
    ELSE CHOOSE r \in {expand(s, nbrs, i + 1, current, goal) :
                         s \in {visit(st, nbrs[i], current, goal)}} : TRUE

\* `while let Some(Some(prev)) = came_from.get(&current)`: the pushes after vec![to].
RECURSIVE walk_back(_, _, _)
walk_back(came, current, acc) ==
    IF current \in DOMAIN came /\ came[current] # None
    THEN walk_back(came, came[current], Append(acc, came[current]))
    ELSE acc

\* path.reverse()
reverse(s) == [i \in 1..Len(s) |-> s[Len(s) + 1 - i]]

\* The path rebuilt from the back-pointers, with the fault of leaving out
\* path.reverse().
reconstruct_without_reverse(came, goal) == walk_back(came, goal, <<goal>>)

\* Lines 586-593: the path rebuilt from the back-pointers.
reconstruct(came, goal) == reverse(walk_back(came, goal, <<goal>>))

\* The entry checks with the fault of testing membership before from == to.
pathfinding_entry_membership_first(l, f, t) ==
    IF ~contains_key(l, f) \/ ~contains_key(l, t) THEN "panic"
    ELSE IF f = t THEN "same"
    ELSE "search"

\* Lines 545-551: which way the entry checks of pathfinding go.
pathfinding_entry(l, f, t) ==
    IF f = t THEN "same"
    ELSE IF ~contains_key(l, f) \/ ~contains_key(l, t) THEN "panic"
    ELSE "search"

\* from == to: return vec![from].
PathfindingSame ==
    /\ pc = "call"
    /\ pathfinding_entry(layer, from, to) = "same"
    /\ path' = <<from>>
    /\ pc' = "returned"
    /\ UNCHANGED <<from, to, frontier, came_from, cost_so_far>>
    /\ UNCHANGED layerVars
    /\ UNCHANGED ringVars
    /\ UNCHANGED <<spiralVars, lineVars, fnVars, lifeVars>>

\* panic!("Position not in layout")
PathfindingPanic ==
    /\ pc = "call"
    /\ pathfinding_entry(layer, from, to) = "panic"
    /\ pc' = "panicked"
    /\ UNCHANGED <<from, to, frontier, came_from, cost_so_far, path>>
    /\ UNCHANGED layerVars
    /\ UNCHANGED ringVars
    /\ UNCHANGED <<spiralVars, lineVars, fnVars, lifeVars>>

\* Lines 553-560: the frontier, came_from and cost_so_far hold only `from`.
PathfindingStart ==
    /\ pc = "call"
    /\ pathfinding_entry(layer, from, to) = "search"
    /\ frontier' = push(EmptyLayer, from, 0)
    /\ came_from' = insert(EmptyLayer, from, None)
    /\ cost_so_far' = insert(EmptyLayer, from, 0)
    /\ pc' = "search"
    /\ UNCHANGED <<from, to, path>>
    /\ UNCHANGED layerVars
    /\ UNCHANGED ringVars
    /\ UNCHANGED <<spiralVars, lineVars, fnVars, lifeVars>>

\* One iteration of the loop that pops a position other than `to`.
PathfindingExpand ==
    /\ pc = "search"
    /\ \E current \in pop_candidates(frontier) :
         /\ current # to
         /\ \E st0 \in {[frontier |-> remove(frontier, current),
                           came_from |-> came_from,
                           cost_so_far |-> cost_so_far]},
               nbrs \in {neighbors_unblocked(layer, current)} :
            \E st \in {expand(st0, nbrs, 1, current, to)} :
              /\ frontier' = st.frontier
              /\ came_from' = st.came_from
              /\ cost_so_far' = st.cost_so_far
    /\ UNCHANGED <<from, to, pc, path>>
    /\ UNCHANGED layerVars
    /\ UNCHANGED ringVars
    /\ UNCHANGED <<spiralVars, lineVars, fnVars, lifeVars>>

\* The loop pops `to` and breaks; the path is rebuilt and returned, and the
\* locals frontier, came_from and cost_so_far are dropped.
PathfindingReached ==
    /\ pc = "search"
    /\ to \in pop_candidates(frontier)
    /\ path' = reconstruct(came_from, to)
    /\ pc' = "returned"
    /\ frontier' = EmptyLayer
    /\ came_from' = EmptyLayer
    /\ cost_so_far' = EmptyLayer
    /\ UNCHANGED <<from, to>>
    /\ UNCHANGED layerVars
    /\ UNCHANGED ringVars
    /\ UNCHANGED <<spiralVars, lineVars, fnVars, lifeVars>>

\* frontier.pop() returns None; the path is rebuilt and returned, and the
\* locals are dropped.
PathfindingExhausted ==
    /\ pc = "search"
    /\ DOMAIN frontier = {}
    /\ path' = reconstruct(came_from, to)
    /\ pc' = "returned"
    /\ came_from' = EmptyLayer
    /\ cost_so_far' = EmptyLayer
    /\ UNCHANGED <<from, to, frontier>>
    /\ UNCHANGED layerVars
    /\ UNCHANGED ringVars
    /\ UNCHANGED <<spiralVars, lineVars, fnVars, lifeVars>>

-----------------------------------------------------------------------------
\* HexLine (lib.rs).  A coordinate is converted to f32 by to_f32, which keeps
\* 24 significant bits.  The f32 interpolation at t = current_index / max_index
\* of the converted coordinates is then modelled exactly: a coordinate is the
\* numerator of a fraction whose denominator is max_index.  For the lines of
\* the model the f32 operations round to the same hexagon as the exact
\* fractions: between coordinates of absolute value at most 3 (distance at
\* most 5) a sample on a rounding tie is taken at t = 1/4, 1/2 or 3/4, where
\* f32 is exact, and any other sample is at least 1/10 away from a tie;
\* between coordinates beyond 2^24 the lines have distance at most 1 and are
\* sampled at t = 0 and t = 1 only, where the interpolation returns an end.

\* The least power of two u such that x < F32Exact * u: the spacing of the
\* f32 values around x >= 0.
RECURSIVE f32_ulp(_)
f32_ulp(x) == IF x < F32Exact THEN 1 ELSE 2 * f32_ulp(x \div 2)

\* Number::to_f32 on an integer, `self as f32`: the nearest value with 24
\* significant bits, a tie going to the even significand.
to_f32(x) ==
    LET m == NumAbs(x)
        u == f32_ulp(m)
        k == m \div u
        rem == m % u
        mag == IF 2 * rem > u \/ (2 * rem = u /\ k % 2 = 1) THEN (k + 1) * u ELSE k * u
    IN IF x < 0 THEN -mag ELSE mag

\* Number::from_f32 and `as u32`, `value as T`, on an f32 that holds an
\* integer of T's range: that integer.
from_f32(value) == value

\* f32::round on num / den (den > 0): half-way cases round away from zero.
round(num, den) ==
    IF num >= 0 THEN (2 * num + den) \div (2 * den)
    ELSE -((2 * (-num) + den) \div (2 * den))

\* utils::axial_round on (q / den, r / den).
axial_round(q, r, den) ==
    LET s == -q - r
        rq == round(q, den)
        rr == round(r, den)
        rs == round(s, den)
        q_diff == NumAbs(rq * den - q)
        r_diff == NumAbs(rr * den - r)
        s_diff == NumAbs(rs * den - s)
    IN IF q_diff > r_diff /\ q_diff > s_diff THEN <<-rr - rs, rr>>
       ELSE IF r_diff > s_diff THEN <<rq, -rq - rs>>
       ELSE <<rq, rr>>

\* Lerp::lerp(a, b, t) with t = i / n, as the numerator over n.
lerp(a, b, i, n) == a * (n - i) + b * i

\* HexPosition::line_to
line_to(self, other) ==
    [start |-> self, end |-> other,
     max_index |-> from_f32(to_f32(distance(self, other))), current_index |-> 0]

\* HexLine::next: the returned item and the iterator afterwards.
HexLine_next(line) ==
    IF line.current_index = line.max_index + 1
    THEN [item |-> None, line |-> line]
    ELSE IF line.start = line.end
    THEN [item |-> line.start, line |-> [line EXCEPT !.current_index = @ + 1]]
    ELSE LET result == axial_round(lerp(to_f32(line.start[1]), to_f32(line.end[1]), line.current_index, line.max_index),
                                   lerp(to_f32(line.start[2]), to_f32(line.end[2]), line.current_index, line.max_index),
                                   line.max_index)
         IN [item |-> <<from_f32(to_f32(result[1])), from_f32(to_f32(result[2]))>>,
             line |-> [line EXCEPT !.current_index = @ + 1]]

-----------------------------------------------------------------------------
\* HexLayout::field_of_view.

\* in_range with the fault of excluding positions at exactly the radius.
in_range_exclusive(range, d) == ~(range # <<>> /\ d >= range[1])

\* Lines 652-656: is_visible after the range test.  The Option<usize> range
\* is <<>> for None and <<radius>> for Some(radius).
in_range(range, d) == ~(range # <<>> /\ d > range[1])

\* Lines 658-665: the loop over center.line_to(position); is_visible afterwards.
RECURSIVE scan_line(_, _, _)
scan_line(l, line, is_visible) ==
    LET nx == HexLine_next(line)
    IN IF nx.item = None THEN is_visible
       ELSE IF ~contains_key(l, nx.item) \/ get(l, nx.item) = <<TRUE>> THEN FALSE
       ELSE scan_line(l, nx.line, is_visible)

\* The body of `for position in self.positions()`: whether position is inserted.
is_visible(l, center, range, position) ==
    scan_line(l, line_to(center, position), in_range(range, distance(position, center)))

field_of_view(l, center, range) == {position \in DOMAIN l : is_visible(l, center, range, position)}

-----------------------------------------------------------------------------
\* HexLayout::field_of_move.  The state of the loops is the record of
\* visited (a set), to_add (a sequence) and fringes (a sequence of sequences).

\* `for neighbor in self.neighbors_unblocked(*pos)`, from the i-th neighbor on.
RECURSIVE fom_neighbors(_, _, _)
fom_neighbors(st, nbrs, i) ==
    IF i > Len(nbrs) THEN st
    ELSE IF nbrs[i] \in st.visited THEN fom_neighbors(st, nbrs, i + 1)
    ELSE fom_neighbors([st EXCEPT !.visited = @ \cup {nbrs[i]}, !.to_add = Append(@, nbrs[i])], nbrs, i + 1)

\* `for pos in fringes[k - 1].iter()`, from the j-th position on.
RECURSIVE fom_fringe(_, _, _, _)
fom_fringe(l, st, fringe, j) ==
    IF j > Len(fringe) THEN st
    ELSE fom_fringe(l, fom_neighbors(st, neighbors_unblocked(l, fringe[j]), 1), fringe, j + 1)

\* `for k in 1..=range`, from k on.  fringes[k] of the code is st.fringes[k + 1].
RECURSIVE fom_levels(_, _, _, _)
fom_levels(l, st, k, range) ==
    IF k > range THEN st
    ELSE LET done == fom_fringe(l, [st EXCEPT !.to_add = <<>>], st.fringes[k], 1)
         IN fom_levels(l, [done EXCEPT !.fringes = Append(@, done.to_add)], k + 1, range)

\* field_of_move with the fault of looping over `1..range`.
field_of_move_exclusive(l, pos, range) ==
    fom_levels(l, [visited |-> {pos}, to_add |-> <<>>, fringes |-> <<<<pos>>>>], 1, range - 1)

\* The visited set returned, with the fringes as they are at the return.
field_of_move(l, pos, range) ==
    fom_levels(l, [visited |-> {pos}, to_add |-> <<>>, fringes |-> <<<<pos>>>>], 1, range)

-----------------------------------------------------------------------------
\* HexRing (lib.rs).

\* ring with the fault of starting radius steps in the DownRight direction.
ring_from_down_right(self, radius) ==
    [current |-> PosAdd(self, PosMulScalar(to_vector("DownRight"), radius)),
     direction |-> "Right", radius |-> radius, index |-> 0]

\* HexPosition::ring
ring(self, radius) ==
    [current |-> PosAdd(self, PosMulScalar(to_vector("DownLeft"), radius)),
     direction |-> "Right", radius |-> radius, index |-> 0]

\* The match of HexRing::next on self.direction; "return" is the early return.
next_direction(d) ==
    CASE d = "Right" -> "UpRight"
      [] d = "UpRight" -> "UpLeft"
      [] d = "UpLeft" -> "Left"
      [] d = "Left" -> "DownLeft"
      [] d = "DownLeft" -> "DownRight"
      [] d = "DownRight" -> "return"

\* Lines 250-253: yield self.current and step along self.direction.
HexRing_yield(it) ==
    [item |-> it.current,
     it |-> [it EXCEPT !.current = PosAdd(@, to_vector(it.direction)), !.index = @ + 1]]

\* HexRing::next with the fault of turning when self.index > self.radius.
HexRing_next_late_turn(it) ==
    IF it.index > it.radius
    THEN IF next_direction(it.direction) = "return"
         THEN [item |-> None, it |-> it]
         ELSE HexRing_yield([it EXCEPT !.direction = next_direction(@), !.index = 0])
    ELSE HexRing_yield(it)

\* HexRing::next: the returned item and the iterator afterwards.
HexRing_next(it) ==
    IF it.index >= it.radius
    THEN IF next_direction(it.direction) = "return"
         THEN [item |-> None, it |-> it]
         ELSE HexRing_yield([it EXCEPT !.direction = next_direction(@), !.index = 0])
    ELSE HexRing_yield(it)

-----------------------------------------------------------------------------
\* HexSpiral (lib.rs).

\* spiral with the fault of setting out on self.ring(0).
spiral_from_ring_zero(self, radius) ==
    [origin |-> self, current |-> ring(self, 0), radius |-> radius, index |-> 0]

\* HexPosition::spiral
spiral(self, radius) ==
    [origin |-> self, current |-> ring(self, 1), radius |-> radius, index |-> 0]

\* HexSpiral::next with the fault of moving on to the next ring whenever the
\* current one is exhausted, without the test self.index < self.radius.
HexSpiral_next_extra_ring(it) ==
    IF it.index = 0 THEN [item |-> it.origin, it |-> [it EXCEPT !.index = 1]]
    ELSE IF it.index > it.radius THEN [item |-> None, it |-> it]
    ELSE LET first == HexRing_next(it.current)
         IN IF first.item = None
            THEN LET second == HexRing_next(ring(it.origin, it.index + 1))
                 IN [item |-> second.item, it |-> [it EXCEPT !.index = @ + 1, !.current = second.it]]
            ELSE [item |-> first.item, it |-> [it EXCEPT !.current = first.it]]

\* HexSpiral::next: the returned item and the iterator afterwards.
HexSpiral_next(it) ==
    IF it.index = 0 THEN [item |-> it.origin, it |-> [it EXCEPT !.index = 1]]
    ELSE IF it.index > it.radius THEN [item |-> None, it |-> it]
    ELSE LET first == HexRing_next(it.current)
         IN IF first.item = None /\ it.index < it.radius
            THEN LET second == HexRing_next(ring(it.origin, it.index + 1))
                 IN [item |-> second.item, it |-> [it EXCEPT !.index = @ + 1, !.current = second.it]]
            ELSE [item |-> first.item, it |-> [it EXCEPT !.current = first.it]]

-----------------------------------------------------------------------------
\* Idle values of the variables a specification does not use.

SpiralIdle ==
    /\ spiral_it = spiral(ORIGIN, 0)
    /\ spiral_out = <<>>
    /\ spiral_ret = "idle"
    /\ spiral_calls = 0

LineIdle ==
    /\ line_it = line_to(ORIGIN, ORIGIN)
    /\ line_out = <<>>
    /\ line_ret = "idle"
    /\ line_calls = 0

FnIdle ==
    /\ fn_call = <<"idle">>
    /\ fn_ret = None

LifeIdle ==
    /\ grid = EmptyLayer
    /\ life_it = <<>>
    /\ life_pc = "idle"
    /\ generation = 0

RingIdle ==
    /\ ring_args = <<ORIGIN, 0>>
    /\ ring_it = ring(ORIGIN, 0)
    /\ ring_out = <<>>
    /\ ring_ret = "idle"
    /\ ring_calls = 0

PathIdle ==
    /\ from = ORIGIN
    /\ to = ORIGIN
    /\ pc = "idle"
    /\ frontier = EmptyLayer
    /\ came_from = EmptyLayer
    /\ cost_so_far = EmptyLayer
    /\ path = <<>>

LayerIdle ==
    /\ layer = EmptyLayer
    /\ edits = 0
    /\ op = <<"idle">>
    /\ ret = None

-----------------------------------------------------------------------------
\* The layer as an object: construction, mutation and the queries that return
\* in one step.  op is the last call with its arguments, ret what it returned.

\* The calls that take &self.  They leave the layer as it is, so a query made
\* after another query reaches the state it reaches when made first: each
\* query is made right after a construction or a mutation.
Queries == {"field_of_view", "field_of_move", "neighbors_unblocked", "get", "len", "is_empty"}

\* The ranges given to field_of_view: None or Some(r).
ViewRanges == {<<>>} \cup {<<radius>> : radius \in 0..MaxMove}

Set(pos, data) ==
    /\ edits < MaxEdits
    /\ layer' = set(layer, pos, data)
    /\ ret' = get(layer, pos)
    /\ op' = <<"set", pos, data>>
    /\ edits' = edits + 1
    /\ UNCHANGED pathVars
    /\ UNCHANGED ringVars
    /\ UNCHANGED <<spiralVars, lineVars, fnVars, lifeVars>>

Delete(pos) ==
    /\ edits < MaxEdits
    /\ layer' = delete(layer, pos)
    /\ ret' = get(layer, pos)
    /\ op' = <<"delete", pos>>
    /\ edits' = edits + 1
    /\ UNCHANGED pathVars
    /\ UNCHANGED ringVars
    /\ UNCHANGED <<spiralVars, lineVars, fnVars, lifeVars>>

\* HexLayout::clear
Clear ==
    /\ edits < MaxEdits
    /\ layer' = EmptyLayer
    /\ ret' = None
    /\ op' = <<"clear">>
    /\ edits' = edits + 1
    /\ UNCHANGED pathVars
    /\ UNCHANGED ringVars
    /\ UNCHANGED <<spiralVars, lineVars, fnVars, lifeVars>>

FieldOfView(center, range) ==
    /\ op[1] \notin Queries
    /\ ret' = field_of_view(layer, center, range)
    /\ op' = <<"field_of_view", center, range>>
    /\ UNCHANGED <<layer, edits>>
    /\ UNCHANGED pathVars
    /\ UNCHANGED ringVars
    /\ UNCHANGED <<spiralVars, lineVars, fnVars, lifeVars>>

FieldOfMove(pos, range) ==
    /\ op[1] \notin Queries
    /\ ret' = field_of_move(layer, pos, range)
    /\ op' = <<"field_of_move", pos, range>>
    /\ UNCHANGED <<layer, edits>>
    /\ UNCHANGED pathVars
    /\ UNCHANGED ringVars
    /\ UNCHANGED <<spiralVars, lineVars, fnVars, lifeVars>>

NeighborsUnblocked(pos) ==
    /\ op[1] \notin Queries
    /\ ret' = neighbors_unblocked(layer, pos)
    /\ op' = <<"neighbors_unblocked", pos>>
    /\ UNCHANGED <<layer, edits>>
    /\ UNCHANGED pathVars
    /\ UNCHANGED ringVars
    /\ UNCHANGED <<spiralVars, lineVars, fnVars, lifeVars>>

Get(pos) ==
    /\ op[1] \notin Queries
    /\ ret' = get(layer, pos)
    /\ op' = <<"get", pos>>
    /\ UNCHANGED <<layer, edits>>
    /\ UNCHANGED pathVars
    /\ UNCHANGED ringVars
    /\ UNCHANGED <<spiralVars, lineVars, fnVars, lifeVars>>

\* HexLayout::len as a call (Len is the length of a sequence).
LenCall ==
    /\ op[1] \notin Queries
    /\ ret' = len(layer)
    /\ op' = <<"len">>
    /\ UNCHANGED <<layer, edits>>
    /\ UNCHANGED pathVars
    /\ UNCHANGED ringVars
    /\ UNCHANGED <<spiralVars, lineVars, fnVars, lifeVars>>

IsEmpty ==
    /\ op[1] \notin Queries
    /\ ret' = is_empty(layer)
    /\ op' = <<"is_empty">>
    /\ UNCHANGED <<layer, edits>>
    /\ UNCHANGED pathVars
    /\ UNCHANGED ringVars
    /\ UNCHANGED <<spiralVars, lineVars, fnVars, lifeVars>>

Init ==
    /\ \E n \in 0..GridRange :
         /\ layer = new_from_range(n, ORIGIN)
         /\ op = <<"new_from_range", n, ORIGIN>>
    /\ edits = 0
    /\ ret = None
    /\ PathIdle
    /\ RingIdle
    /\ SpiralIdle
    /\ LineIdle
    /\ FnIdle
    /\ LifeIdle

Next ==
    \/ \E pos \in Positions, data \in BOOLEAN : Set(pos, data)
    \/ \E pos \in Positions : Delete(pos)
    \/ Clear
    \/ \E center \in Sources, range \in ViewRanges : FieldOfView(center, range)
    \/ \E pos \in Sources, range \in 0..MaxMove : FieldOfMove(pos, range)
    \/ \E pos \in Positions : NeighborsUnblocked(pos)
    \/ \E pos \in Positions : Get(pos)
    \/ LenCall
    \/ IsEmpty

Spec == Init /\ [][Next]_vars

-----------------------------------------------------------------------------
\* A call pathfinding(from, to) on a layer built by new_from_range and edited
\* at most MaxEdits times.

InitPath ==
    /\ layer \in EditedLayers(MaxEdits)
    /\ edits = 0
    /\ op = <<"pathfinding">>
    /\ ret = None
    /\ from \in Sources
    /\ to \in Positions
    /\ pc = "call"
    /\ frontier = EmptyLayer
    /\ came_from = EmptyLayer
    /\ cost_so_far = EmptyLayer
    /\ path = <<>>
    /\ RingIdle
    /\ SpiralIdle
    /\ LineIdle
    /\ FnIdle
    /\ LifeIdle

NextPath ==
    \/ PathfindingSame
    \/ PathfindingPanic
    \/ PathfindingStart
    \/ PathfindingExpand
    \/ PathfindingReached
    \/ PathfindingExhausted

SpecPath == InitPath /\ [][NextPath]_vars

\* A call that has begun runs on: pathfinding is one sequential function, so
\* its next statement is executed as long as there is one.
SpecPathLive == InitPath /\ [][NextPath]_vars /\ WF_vars(NextPath)

-----------------------------------------------------------------------------
\* An iteration over center.ring(radius): one action per call of next().

\* The centers of the rings.
Centers == ((-MaxCenter)..MaxCenter) \X ((-MaxCenter)..MaxCenter)

\* The calls go on until next() has returned None, and once more after a ring
\* of radius r >= 1 has been exhausted.
RingNext ==
    /\ (ring_calls <= 6 * ring_args[2] + 1 \/ ring_ret # None)
    /\ LET nx == HexRing_next(ring_it)
       IN /\ ring_it' = nx.it
          /\ ring_ret' = nx.item
          /\ ring_out' = IF nx.item = None THEN ring_out ELSE Append(ring_out, nx.item)
    /\ ring_calls' = ring_calls + 1
    /\ UNCHANGED ring_args
    /\ UNCHANGED layerVars
    /\ UNCHANGED pathVars
    /\ UNCHANGED <<spiralVars, lineVars, fnVars, lifeVars>>

InitRing ==
    /\ \E c \in Centers, radius \in 0..MaxRadius :
         /\ ring_args = <<c, radius>>
         /\ ring_it = ring(c, radius)
    /\ ring_out = <<>>
    /\ ring_ret = "idle"
    /\ ring_calls = 0
    /\ LayerIdle
    /\ PathIdle
    /\ SpiralIdle
    /\ LineIdle
    /\ FnIdle
    /\ LifeIdle

NextRing == RingNext

SpecRing == InitRing /\ [][NextRing]_vars

-----------------------------------------------------------------------------
\* An iteration over center.spiral(radius): one action per call of next().

\* The number of positions within `radius` of a center.
SpiralTotal(radius) == 1 + 3 * radius * (radius + 1)

\* The calls go on until next() has returned None twice.
SpiralNext ==
    /\ spiral_calls <= SpiralTotal(spiral_it.radius) + 1
    /\ LET nx == HexSpiral_next(spiral_it)
       IN /\ spiral_it' = nx.it
          /\ spiral_ret' = nx.item
          /\ spiral_out' = IF nx.item = None THEN spiral_out ELSE Append(spiral_out, nx.item)
    /\ spiral_calls' = spiral_calls + 1
    /\ UNCHANGED layerVars
    /\ UNCHANGED pathVars
    /\ UNCHANGED ringVars
    /\ UNCHANGED <<lineVars, fnVars, lifeVars>>

InitSpiral ==
    /\ \E c \in Centers, radius \in 0..MaxRadius : spiral_it = spiral(c, radius)
    /\ spiral_out = <<>>
    /\ spiral_ret = "idle"
    /\ spiral_calls = 0
    /\ LayerIdle
    /\ PathIdle
    /\ RingIdle
    /\ LineIdle
    /\ FnIdle
    /\ LifeIdle

NextSpiral == SpiralNext

SpecSpiral == InitSpiral /\ [][NextSpiral]_vars

-----------------------------------------------------------------------------
\* An iteration over start.line_to(end): one action per call of next().

\* Positions whose first coordinate is at or just beyond 2^24.
LargePositions == {<<F32Exact + k, 0>> : k \in 0..2}

\* The ends of the lines: any two positions of the largest layer, or two
\* large positions that are equal or adjacent.
LineEnds ==
    (Positions \X Positions)
        \cup {pq \in LargePositions \X LargePositions : distance(pq[1], pq[2]) <= 1}

\* The calls go on until next() has returned None twice.
LineNext ==
    /\ line_calls <= line_it.max_index + 2
    /\ LET nx == HexLine_next(line_it)
       IN /\ line_it' = nx.line
          /\ line_ret' = nx.item
          /\ line_out' = IF nx.item = None THEN line_out ELSE Append(line_out, nx.item)
    /\ line_calls' = line_calls + 1
    /\ UNCHANGED layerVars
    /\ UNCHANGED pathVars
    /\ UNCHANGED ringVars
    /\ UNCHANGED <<spiralVars, fnVars, lifeVars>>

InitLine ==
    /\ \E pq \in LineEnds : line_it = line_to(pq[1], pq[2])
    /\ line_out = <<>>
    /\ line_ret = "idle"
    /\ line_calls = 0
    /\ LayerIdle
    /\ PathIdle
    /\ RingIdle
    /\ SpiralIdle
    /\ FnIdle
    /\ LifeIdle

NextLine == LineNext

SpecLine == InitLine /\ [][NextLine]_vars

-----------------------------------------------------------------------------
\* The functions that return a value without keeping state: fn_call is the
\* call with its arguments, fn_ret what it returned.  One function is called
\* on arguments drawn from the sets below.

NewFromRange ==
    /\ fn_call = <<"idle">>
    /\ \E range \in 0..(MaxRadius + 1), center \in Centers :
         /\ fn_call' = <<"new_from_range", range, center>>
         /\ fn_ret' = new_from_range(range, center)
    /\ UNCHANGED layerVars
    /\ UNCHANGED pathVars
    /\ UNCHANGED ringVars
    /\ UNCHANGED <<spiralVars, lineVars, lifeVars>>

\* The layers given to and, or and xor: new_from_range(n, c) as constructed
\* (every value false) and with every value set to true.
Operands ==
    LET built == {new_from_range(n, c) : n \in 0..(MaxCenter + 1), c \in Centers}
    IN built \cup {[p \in DOMAIN l |-> TRUE] : l \in built}

And ==
    /\ fn_call = <<"idle">>
    /\ \E self \in Operands, other \in Operands :
         /\ fn_call' = <<"and", self, other>>
         /\ fn_ret' = and(self, other)
    /\ UNCHANGED layerVars
    /\ UNCHANGED pathVars
    /\ UNCHANGED ringVars
    /\ UNCHANGED <<spiralVars, lineVars, lifeVars>>

Or ==
    /\ fn_call = <<"idle">>
    /\ \E self \in Operands, other \in Operands :
         /\ fn_call' = <<"or", self, other>>
         /\ fn_ret' = or(self, other)
    /\ UNCHANGED layerVars
    /\ UNCHANGED pathVars
    /\ UNCHANGED ringVars
    /\ UNCHANGED <<spiralVars, lineVars, lifeVars>>

Xor ==
    /\ fn_call = <<"idle">>
    /\ \E self \in Operands, other \in Operands :
         /\ fn_call' = <<"xor", self, other>>
         /\ fn_ret' = xor(self, other)
    /\ UNCHANGED layerVars
    /\ UNCHANGED pathVars
    /\ UNCHANGED ringVars
    /\ UNCHANGED <<spiralVars, lineVars, lifeVars>>

\* The positions given to neighbors, distance and rotation.
Points == ((-MaxRadius)..MaxRadius) \X ((-MaxRadius)..MaxRadius)

Neighbors ==
    /\ fn_call = <<"idle">>
    /\ \E pos \in Points :
         /\ fn_call' = <<"neighbors", pos>>
         /\ fn_ret' = neighbors(pos)
    /\ UNCHANGED layerVars
    /\ UNCHANGED pathVars
    /\ UNCHANGED ringVars
    /\ UNCHANGED <<spiralVars, lineVars, lifeVars>>

Distance ==
    /\ fn_call = <<"idle">>
    /\ \E self \in Points, other \in Points :
         /\ fn_call' = <<"distance", self, other>>
         /\ fn_ret' = distance(self, other)
    /\ UNCHANGED layerVars
    /\ UNCHANGED pathVars
    /\ UNCHANGED ringVars
    /\ UNCHANGED <<spiralVars, lineVars, lifeVars>>

Rotation ==
    /\ fn_call = <<"idle">>
    /\ \E self \in Points, n \in 0..MaxTurns :
         /\ fn_call' = <<"rotation", self, n>>
         /\ fn_ret' = rotation(self, n)
    /\ UNCHANGED layerVars
    /\ UNCHANGED pathVars
    /\ UNCHANGED ringVars
    /\ UNCHANGED <<spiralVars, lineVars, lifeVars>>

InitFn ==
    /\ FnIdle
    /\ LifeIdle
    /\ LayerIdle
    /\ PathIdle
    /\ RingIdle
    /\ SpiralIdle
    /\ LineIdle

NextFn ==
    \/ NewFromRange
    \/ And
    \/ Or
    \/ Xor
    \/ Neighbors
    \/ Distance
    \/ Rotation

SpecFn == InitFn /\ [][NextFn]_vars

-----------------------------------------------------------------------------
\* The game-of-life example (examples/game-of-life/src/main.rs).

\* Option::unwrap_or on the result of get.
unwrap_or(opt, default) == IF opt = <<>> THEN default ELSE opt[1]

\* Lines 27-31: the neighbors of pos that grid holds with value true.
alive_neighbors(g, pos) ==
    Cardinality({i \in 1..6 : unwrap_or(get(g, neighbors(pos)[i]), FALSE)})

\* The match of next_generation, with the fault of letting a live cell with
\* 3 live neighbors live on.
next_state_survives_three(current_state, x) ==
    IF current_state /\ (x < 2 \/ x > 3) THEN FALSE
    ELSE IF ~current_state /\ x = 2 THEN TRUE
    ELSE current_state

\* Lines 34-38: the match on (current_state, alive_neighbors).
next_state(current_state, x) ==
    IF current_state /\ (x < 2 \/ x > 2) THEN FALSE
    ELSE IF ~current_state /\ x = 2 THEN TRUE
    ELSE current_state

\* Lines 27-40: the body of `for pos in grid.positions()` for one position;
\* x is alive_neighbors.
life_visit(g, next_grid, pos) ==
    CHOOSE r \in {set(next_grid, pos, next_state(g[pos], x)) :
                     x \in {alive_neighbors(g, pos)}} : TRUE

\* `for pos in grid.positions()` over the positions still to come; the order
\* of a HashMap's keys is not specified and the loop takes them in any.  The
\* sets of one element bind the position, the grid and the rest of each
\* iteration before the next is evaluated.
RECURSIVE life_loop(_, _, _)
life_loop(g, next_grid, todo) ==
    IF todo = {} THEN next_grid
    ELSE CHOOSE r \in UNION {{life_loop(g, n, rest) :
                                 n \in {life_visit(g, next_grid, pos)},
                                 rest \in {todo \ {pos}}} :
                             pos \in {CHOOSE p \in todo : TRUE}} : TRUE

\* next_generation
next_generation(g) == life_loop(g, new_from_range(GRID_SIZE, ORIGIN), DOMAIN g)

\* The cells of g that are alive.
Alive(g) == {p \in DOMAIN g : g[p]}

\* An iteration of `for pos in ORIGIN.spiral(GRID_SIZE)` in initialize_grid:
\* grid.set(pos, state) with state drawn at random.
InitializeGridSet ==
    /\ life_pc = "initialize_grid"
    /\ \E nx \in {HexSpiral_next(life_it)} :
         /\ nx.item # None
         /\ life_it' = nx.it
         /\ \E state \in BOOLEAN :
              /\ state => Cardinality(Alive(grid)) < MaxAlive
              /\ grid' = set(grid, nx.item, state)
    /\ UNCHANGED <<life_pc, generation>>
    /\ UNCHANGED layerVars
    /\ UNCHANGED pathVars
    /\ UNCHANGED ringVars
    /\ UNCHANGED <<spiralVars, lineVars, fnVars>>

\* The spiral is exhausted: initialize_grid returns to main.
InitializeGridReturn ==
    /\ life_pc = "initialize_grid"
    /\ \E nx \in {HexSpiral_next(life_it)} :
         /\ nx.item = None
         /\ life_it' = nx.it
    /\ life_pc' = "generations"
    /\ UNCHANGED <<grid, generation>>
    /\ UNCHANGED layerVars
    /\ UNCHANGED pathVars
    /\ UNCHANGED ringVars
    /\ UNCHANGED <<spiralVars, lineVars, fnVars>>

\* An iteration of `for _ in 0..10`: grid = next_generation(&grid).
NextGeneration ==
    /\ life_pc = "generations"
    /\ generation < Generations
    /\ \E next_grid \in {next_generation(grid)} : grid' = next_grid
    /\ generation' = generation + 1
    /\ UNCHANGED <<life_it, life_pc>>
    /\ UNCHANGED layerVars
    /\ UNCHANGED pathVars
    /\ UNCHANGED ringVars
    /\ UNCHANGED <<spiralVars, lineVars, fnVars>>

\* The loop of main is over.
MainReturn ==
    /\ life_pc = "generations"
    /\ generation = Generations
    /\ life_pc' = "done"
    /\ UNCHANGED <<grid, life_it, generation>>
    /\ UNCHANGED layerVars
    /\ UNCHANGED pathVars
    /\ UNCHANGED ringVars
    /\ UNCHANGED <<spiralVars, lineVars, fnVars>>

\* main after `let mut grid = HexLayout::new_from_range(GRID_SIZE, HexPosition(0, 0))`,
\* at the call of initialize_grid.
InitLife ==
    /\ grid = new_from_range(GRID_SIZE, ORIGIN)
    /\ life_it = spiral(ORIGIN, GRID_SIZE)
    /\ life_pc = "initialize_grid"
    /\ generation = 0
    /\ LayerIdle
    /\ PathIdle
    /\ RingIdle
    /\ SpiralIdle
    /\ LineIdle
    /\ FnIdle

NextLife ==
    \/ InitializeGridSet
    \/ InitializeGridReturn
    \/ NextGeneration
    \/ MainReturn

\* main is one sequential function: its next statement is executed as long
\* as there is one.
SpecLife == InitLife /\ [][NextLife]_vars /\ WF_vars(NextLife)

-----------------------------------------------------------------------------
\* The unblocked-neighbor graph of a layer, stated without the code's helpers:
\* a hop goes from u to an adjacent key of the layer whose value is false.

OpenAdjacent(l, u) ==
    {v \in {<<u[1] + 1, u[2]>>, <<u[1] + 1, u[2] - 1>>, <<u[1], u[2] - 1>>,
             <<u[1] - 1, u[2]>>, <<u[1] - 1, u[2] + 1>>, <<u[1], u[2] + 1>>} :
        v \in DOMAIN l /\ l[v] = FALSE}

\* Breadth-first levels: `seen` holds the positions at most k hops from the
\* source and `fringe` those at exactly k hops.  The positions within `bound` hops.
RECURSIVE Within(_, _, _, _, _)
Within(l, seen, fringe, k, bound) ==
    IF k = bound \/ fringe = {} THEN seen
    ELSE LET nxt == (UNION {OpenAdjacent(l, u) : u \in fringe}) \ seen
         IN Within(l, seen \cup nxt, nxt, k + 1, bound)

\* The breadth-first hop distance to dst, -1 when dst is unreachable.
RECURSIVE HopsFrom(_, _, _, _, _)
HopsFrom(l, seen, fringe, k, dst) ==
    IF dst \in fringe THEN k
    ELSE IF fringe = {} THEN -1
    ELSE LET nxt == (UNION {OpenAdjacent(l, u) : u \in fringe}) \ seen
         IN HopsFrom(l, seen \cup nxt, nxt, k + 1, dst)

HopDistance(l, src, dst) == HopsFrom(l, {src}, {src}, 0, dst)

Members(l, a, b) == a \in DOMAIN l /\ b \in DOMAIN l

-----------------------------------------------------------------------------
C2_PanicsWhenNotMember ==
    (pc \in {"returned", "panicked"} /\ ~Members(layer, from, to)) => pc = "panicked"

C4_UnreachableReturnsTo ==
    (pc = "returned" /\ from # to /\ Members(layer, from, to) /\ HopDistance(layer, from, to) = -1)
        => path = <<to>> /\ path[1] # from

C4_Witness ==
    /\ pc = "returned"
    /\ from # to
    /\ Members(layer, from, to)
    /\ layer[to] = TRUE
    /\ HopDistance(layer, from, to) = -1
    /\ path = <<to>>

\* Every item of self.line_to(other), collected in order.
RECURSIVE collect_line(_, _)
collect_line(line, acc) ==
    LET nx == HexLine_next(line)
    IN IF nx.item = None THEN acc ELSE collect_line(nx.line, Append(acc, nx.item))

LinePositions(a, b) == LET s == collect_line(line_to(a, b), <<>>) IN {s[i] : i \in 1..Len(s)}

IsOpen(l, x) == x \in DOMAIN l /\ l[x] = FALSE

\* The set C5 describes: within range and every position of the line from
\* center is an open key of the layer.
VisibleSet(l, center, range) ==
    {p \in DOMAIN l :
        /\ range = <<>> \/ distance(p, center) <= range[1]
        /\ \A x \in LinePositions(center, p) : IsOpen(l, x)}

C6_TargetValueIrrelevant ==
    op[1] = "field_of_view"
        => \A p \in DOMAIN layer :
              (p \in ret) <=> (p \in field_of_view(set(layer, p, ~layer[p]), op[2], op[3]))

\* C7: a center that is a key of the layer is in field_of_view(center, range)
\* for every range.
C7_CenterVisible ==
    (op[1] = "field_of_view" /\ op[2] \in DOMAIN layer) => op[2] \in ret

\* C8: field_of_move(pos, range) returns pos and every position at most range
\* hops from it; fringe k holds, once each, exactly the positions whose
\* minimum hop count is k; from the center of the open layer of radius 2 and
\* range 2 there are 19 positions.
C8_FieldOfMoveIsBreadthFirst ==
    op[1] = "field_of_move"
        => LET pos == op[2]
               range == op[3]
               visited == ret.visited
               fringes == ret.fringes
           IN /\ visited = Within(layer, {pos}, {pos}, 0, range)
              /\ pos \in visited
              /\ Len(fringes) = range + 1
              /\ \A k \in 0..range :
                    /\ {fringes[k + 1][i] : i \in 1..Len(fringes[k + 1])}
                          = {p \in visited : HopDistance(layer, pos, p) = k}
                    /\ \A i, j \in 1..Len(fringes[k + 1]) : i # j => fringes[k + 1][i] # fringes[k + 1][j]
              /\ (layer = new_from_range(3, ORIGIN) /\ pos = ORIGIN /\ range = 2)
                    => Cardinality(visited) = 19

C8_Witness ==
    /\ op = <<"field_of_move", ORIGIN, 2>>
    /\ layer = new_from_range(3, ORIGIN)
    /\ Cardinality(ret.visited) = 19
    /\ Len(ret.fringes[3]) = 12

\* The 6 geometric neighbors of pos in the order Right, UpRight, UpLeft, Left,
\* DownLeft, DownRight.
SixNeighbors(pos) ==
    <<<<pos[1] + 1, pos[2]>>, <<pos[1] + 1, pos[2] - 1>>, <<pos[1], pos[2] - 1>>,
      <<pos[1] - 1, pos[2]>>, <<pos[1] - 1, pos[2] + 1>>, <<pos[1], pos[2] + 1>>>>

\* C9: neighbors_unblocked(pos) returns exactly the geometric neighbors of pos
\* that are keys with value false, in direction order; absent neighbors are
\* never returned and the membership or value of pos itself does not matter.
C9_NeighborsUnblockedFilters ==
    op[1] = "neighbors_unblocked"
        => LET pos == op[2]
           IN /\ ret = SelectSeq(SixNeighbors(pos), LAMBDA n : IsOpen(layer, n))
              /\ \A i \in 1..Len(ret) : ret[i] \in DOMAIN layer
              /\ ret = neighbors_unblocked(delete(layer, pos), pos)
              /\ ret = neighbors_unblocked(set(layer, pos, TRUE), pos)
              /\ ret = neighbors_unblocked(set(layer, pos, FALSE), pos)

\* A call on the rim of a layer with a blocked neighbor: some neighbors are
\* absent, one is blocked and the others are returned.
C9_Witness ==
    /\ op[1] = "neighbors_unblocked"
    /\ Len(ret) \in 1..4
    /\ \E i \in 1..6 : SixNeighbors(op[2])[i] \notin DOMAIN layer
    /\ \E i \in 1..6 : SixNeighbors(op[2])[i] \in DOMAIN layer /\ layer[SixNeighbors(op[2])[i]] = TRUE

\* The positions around c that can be at distance r from it.
Box(c, r) == ((c[1] - r)..(c[1] + r)) \X ((c[2] - r)..(c[2] + r))

\* C10: for r >= 1, c.ring(r) yields exactly 6 * r pairwise distinct
\* positions, each at distance r from c, so that the yielded set is the set
\* of positions at distance r; every later call of next() returns None.
C10_RingYieldsDistanceSet ==
    LET c == ring_args[1]
        r == ring_args[2]
    IN r >= 1
        => /\ Len(ring_out) = (IF ring_calls <= 6 * r THEN ring_calls ELSE 6 * r)
           /\ \A i \in 1..Len(ring_out) : distance(ring_out[i], c) = r
           /\ \A i, j \in 1..Len(ring_out) : i # j => ring_out[i] # ring_out[j]
           /\ (ring_calls >= 1 => ((ring_ret = None) <=> (ring_calls > 6 * r)))
           /\ (ring_calls >= 6 * r
                 => {ring_out[i] : i \in 1..Len(ring_out)} = {p \in Box(c, r) : distance(p, c) = r})

C10_Witness ==
    /\ ring_args[2] >= 2
    /\ ring_calls = 6 * ring_args[2] + 2
    /\ ring_ret = None
    /\ Len(ring_out) = 6 * ring_args[2]

\* C11: c.ring(0) yields exactly one position, the center c, and then ends:
\* the first call of next() returns c and every later call returns None.
C11_RingZeroYieldsCenter ==
    ring_args[2] = 0
        => /\ (ring_calls >= 1 => ring_out = <<ring_args[1]>>)
           /\ (ring_calls >= 2 => ring_ret = None)

\* Every item of an iteration over a ring, collected in order.
RECURSIVE collect_ring(_, _)
collect_ring(it, acc) ==
    LET nx == HexRing_next(it)
    IN IF nx.item = None THEN acc ELSE collect_ring(nx.it, Append(acc, nx.item))

\* c followed by the sequences of c.ring(1), ..., c.ring(r).
RECURSIVE CenterThenRings(_, _)
CenterThenRings(c, r) ==
    IF r = 0 THEN <<c>> ELSE CenterThenRings(c, r - 1) \o collect_ring(ring(c, r), <<>>)

\* C12: c.spiral(r) yields c first and then the whole of c.ring(1), ...,
\* c.ring(r) in increasing radius order: 1 + 3 * r * (r + 1) pairwise distinct
\* positions (only c when r = 0); every later call of next() returns None.
C12_SpiralIsCenterThenRings ==
    LET c == spiral_it.origin
        r == spiral_it.radius
        total == 1 + 3 * r * (r + 1)
        all == CenterThenRings(c, r)
    IN /\ Len(all) = total
       /\ Len(spiral_out) = (IF spiral_calls <= total THEN spiral_calls ELSE total)
       /\ spiral_out = SubSeq(all, 1, Len(spiral_out))
       /\ \A i, j \in 1..Len(spiral_out) : i # j => spiral_out[i] # spiral_out[j]
       /\ (spiral_calls >= 1 => ((spiral_ret = None) <=> (spiral_calls > total)))

C12_Witness ==
    /\ spiral_it.radius >= 2
    /\ spiral_calls = SpiralTotal(spiral_it.radius) + 2
    /\ spiral_ret = None
    /\ Len(spiral_out) = 1 + 3 * spiral_it.radius * (spiral_it.radius + 1)
    /\ spiral_out[1] = spiral_it.origin
    /\ distance(spiral_out[Len(spiral_out)], spiral_it.origin) = spiral_it.radius

\* C13: p.line_to(q) yields exactly distance(p, q) + 1 positions, the first
\* equal to p and the last equal to q (p.line_to(p) yields exactly [p]), and
\* next() returns None afterwards.
C13_LineCountAndEnds ==
    LET p == line_it.start
        q == line_it.end
        n == distance(p, q) + 1
    IN /\ Len(line_out) = (IF line_calls <= n THEN line_calls ELSE n)
       /\ (line_calls >= 1 => line_out[1] = p)
       /\ (line_calls >= n => line_out[n] = q)
       /\ (line_calls >= 1 => ((line_ret = None) <=> (line_calls > n)))

\* C14: the key set of new_from_range(N, c) is exactly the set of positions p
\* with distance(p, c) <= N - 1: empty for N = 0, only c for N = 1 and
\* 1 + 3 * N * (N - 1) positions for N >= 1; every key maps to the default
\* value of the data type (false for bool).
C14_NewFromRangeIsDisc ==
    fn_call[1] = "new_from_range"
        => LET N == fn_call[2]
               c == fn_call[3]
               keys == DOMAIN fn_ret
           IN /\ keys = {p \in Box(c, N) : distance(p, c) <= N - 1}
              /\ (N = 0 => keys = {})
              /\ (N = 1 => keys = {c})
              /\ (N >= 1 => Cardinality(keys) = 1 + 3 * N * (N - 1))
              /\ \A p \in keys : fn_ret[p] = FALSE

C14_Witness ==
    /\ fn_call[1] = "new_from_range"
    /\ fn_call[2] = 3
    /\ fn_call[3] # ORIGIN
    /\ Cardinality(DOMAIN fn_ret) = 19
    /\ PosAdd(fn_call[3], <<2, -1>>) \in DOMAIN fn_ret
    /\ PosAdd(fn_call[3], <<2, 1>>) \notin DOMAIN fn_ret

\* What a partial map from positions to values returns for key p: <<v>> when
\* p is present with value v, <<>> when p is absent.
Lookup(l, p) == IF p \in DOMAIN l THEN <<l[p]>> ELSE <<>>

\* One call on the layer, as a step of a partial map: set(p, v) stores v at p
\* and returns what was stored there, delete(p) removes p and returns what
\* was removed, both leave every other key with its value; clear removes
\* every key; get(p) returns what is stored at p, len the number of keys and
\* is_empty whether there is none, and these leave the layer as it is.
C15_Step ==
    /\ op'[1] = "set"
          => /\ ret' = Lookup(layer, op'[2])
             /\ Lookup(layer', op'[2]) = <<op'[3]>>
             /\ \A k \in Positions \ {op'[2]} : Lookup(layer', k) = Lookup(layer, k)
             /\ DOMAIN layer' = DOMAIN layer \cup {op'[2]}
    /\ op'[1] = "delete"
          => /\ ret' = Lookup(layer, op'[2])
             /\ Lookup(layer', op'[2]) = <<>>
             /\ \A k \in Positions \ {op'[2]} : Lookup(layer', k) = Lookup(layer, k)
             /\ DOMAIN layer' = DOMAIN layer \ {op'[2]}
    /\ op'[1] = "clear" => DOMAIN layer' = {}
    /\ op'[1] = "get" => layer' = layer /\ ret' = Lookup(layer, op'[2])
    /\ op'[1] = "len" => layer' = layer /\ ret' = Cardinality(DOMAIN layer)
    /\ op'[1] = "is_empty" => layer' = layer /\ (ret' <=> Cardinality(DOMAIN layer) = 0)

Negated(l) == [p \in DOMAIN l |-> ~l[p]]

\* C16: A.and(B) is the intersection of the key sets, A.or(B) their union and
\* A.xor(B) their symmetric difference, whatever the stored values; hence
\* |A.and(B)| <= min(|A|, |B|), |A.or(B)| = |A| + |B| - |A.and(B)| and
\* A.xor(B) = A.or(B) minus A.and(B).
C16_SetOperationsOnKeys ==
    fn_call[1] \in {"and", "or", "xor"}
        => LET A == fn_call[2]
               B == fn_call[3]
               KA == DOMAIN A
               KB == DOMAIN B
           IN /\ fn_call[1] = "and" => fn_ret = KA \cap KB
              /\ fn_call[1] = "or" => fn_ret = KA \cup KB
              /\ fn_call[1] = "xor" => fn_ret = (KA \ KB) \cup (KB \ KA)
              /\ and(A, B) = and(Negated(A), B) /\ and(A, B) = and(A, Negated(B))
              /\ or(A, B) = or(Negated(A), B) /\ or(A, B) = or(A, Negated(B))
              /\ xor(A, B) = xor(Negated(A), B) /\ xor(A, B) = xor(A, Negated(B))
              /\ Cardinality(and(A, B)) <= Cardinality(KA)
              /\ Cardinality(and(A, B)) <= Cardinality(KB)
              /\ Cardinality(or(A, B)) = Cardinality(KA) + Cardinality(KB) - Cardinality(and(A, B))
              /\ xor(A, B) = or(A, B) \ and(A, B)

\* Two overlapping layers, neither inside the other, that store different
\* values at a shared key.
C16_Witness ==
    /\ fn_call[1] = "and"
    /\ fn_ret # {}
    /\ fn_ret # DOMAIN fn_call[2]
    /\ fn_ret # DOMAIN fn_call[3]
    /\ \E p \in fn_ret : fn_call[2][p] # fn_call[3][p]

\* A layer as new_from_range builds it around the origin: every value false.
FullyOpen(l) == \E n \in 0..GridRange : l = new_from_range(n, ORIGIN)

\* C17: on a fully open layer, for any two members from and to, the path
\* returned has exactly distance(from, to) + 1 positions.
C17_OpenLayerPathLength ==
    (pc = "returned" /\ FullyOpen(layer) /\ Members(layer, from, to))
        => Len(path) = distance(from, to) + 1

\* A call between two positions that are not on a common axis, 4 apart.
C17_Witness ==
    /\ pc = "returned"
    /\ layer = new_from_range(3, ORIGIN)
    /\ from = <<2, -2>>
    /\ to = <<-2, 1>>
    /\ Len(path) = 5
    /\ path[1] = from
    /\ path[5] = to

\* C18: neighbors(p) returns exactly 6 positions, each at distance 1 from p,
\* the i-th being p plus the i-th of the vectors of Right, UpRight, UpLeft,
\* Left, DownLeft, DownRight: (1,0), (1,-1), (0,-1), (-1,0), (-1,1), (0,1).
C18_NeighborsInDirectionOrder ==
    fn_call[1] = "neighbors"
        => LET pos == fn_call[2]
           IN /\ Len(fn_ret) = 6
              /\ \A i \in 1..6 : NumMax(NumMax(NumAbs(fn_ret[i][1] - pos[1]), NumAbs(fn_ret[i][2] - pos[2])),
                                         NumAbs(fn_ret[i][1] + fn_ret[i][2] - pos[1] - pos[2])) = 1
              /\ fn_ret = SixNeighbors(pos)

C18_Witness ==
    /\ fn_call = <<"neighbors", <<2, -3>>>>
    /\ fn_ret[1] = <<3, -3>>
    /\ fn_ret[6] = <<2, -2>>

\* C19: distance(a, b) equals max(|dq|, |dr|, |dq + dr|) with dq and dr the
\* coordinate differences; distance(p, p) = 0 and distance(a, b) =
\* distance(b, a).
C19_DistanceIsMaxOfThree ==
    fn_call[1] = "distance"
        => LET a == fn_call[2]
               b == fn_call[3]
               dq == a[1] - b[1]
               dr == a[2] - b[2]
               m == CHOOSE x \in {NumAbs(dq), NumAbs(dr), NumAbs(dq + dr)} :
                        \A y \in {NumAbs(dq), NumAbs(dr), NumAbs(dq + dr)} : y <= x
           IN /\ fn_ret = m
              /\ (a = b => fn_ret = 0)
              /\ fn_ret = distance(b, a)

\* Two positions whose distance is carried by dq + dr alone.
C19_Witness ==
    /\ fn_call = <<"distance", <<0, 0>>, <<-2, -1>>>>
    /\ fn_ret = 3

\* The map (q, r) -> (-r, q + r) applied k times, k in 0..5, in closed form.
Turned(p, k) ==
    CASE k = 0 -> p
      [] k = 1 -> <<-p[2], p[1] + p[2]>>
      [] k = 2 -> <<-p[1] - p[2], p[1]>>
      [] k = 3 -> <<-p[1], -p[2]>>
      [] k = 4 -> <<p[2], -p[1] - p[2]>>
      [] k = 5 -> <<p[1] + p[2], -p[1]>>

\* C20: p.rotation(n) equals the map (q, r) -> (-r, q + r) applied n times
\* to p; rotation(1) applied six times returns p, and rotation(2) of (-3, 1)
\* is (2, -3).
C20_RotationIsRepeatedTurn ==
    fn_call[1] = "rotation"
        => LET p == fn_call[2]
               n == fn_call[3]
           IN /\ fn_ret = Turned(p, n % 6)
              /\ rotation(rotation(rotation(rotation(rotation(rotation(p, 1), 1), 1), 1), 1), 1) = p
              /\ (n >= 1 => fn_ret = rotation(<<-p[2], p[1] + p[2]>>, n - 1))
              /\ ((p = <<-3, 1>> /\ n = 2) => fn_ret = <<2, -3>>)

C20_Witness ==
    /\ fn_call = <<"rotation", <<-3, 1>>, 2>>
    /\ fn_ret = <<2, -3>>


-----------------------------------------------------------------------------
\* The walk of a ring.

\* The position from which c.ring(r) sets out.
RingStart(c, r) == PosAdd(c, PosMulScalar(to_vector("DownLeft"), r))

\* The direction of the step that follows the k-th yielded position of a
\* ring of radius r: r steps along each direction in turn.
StepAfter(k, r) == HexDirection[((k - 1) \div r) + 1]

\* C21: for r >= 1, c.ring(r) starts at c + r * DownLeft and advances one
\* step at a time, r steps along each of Right, UpRight, UpLeft, Left,
\* DownLeft, DownRight in that order; it ends after the DownRight segment, the
\* last yielded position being c + r * DownLeft - DownRight.
C21_RingWalksSixSides ==
    LET c == ring_args[1]
        r == ring_args[2]
    IN r >= 1
        => /\ (ring_calls >= 1 => ring_out[1] = RingStart(c, r))
           /\ \A k \in 1..(Len(ring_out) - 1) :
                ring_out[k + 1] = PosAdd(ring_out[k], to_vector(StepAfter(k, r)))
           /\ (ring_ret = None
                 => /\ Len(ring_out) = 6 * r
                    /\ PosAdd(ring_out[6 * r], to_vector("DownRight")) = RingStart(c, r))

C21_Witness ==
    /\ ring_args[2] = 2
    /\ ring_ret = None
    /\ ring_out[1] = PosAdd(ring_args[1], <<-2, 2>>)
    /\ ring_out[5] = PosAdd(ring_args[1], <<2, 0>>)
    /\ ring_out[12] = PosAdd(ring_args[1], <<-2, 1>>)


-----------------------------------------------------------------------------
\* The shape of a returned path.

\* C22: for members from # to with to reachable, the returned sequence is a
\* walk in order from start to end: it begins with from and ends with to,
\* consecutive elements are at distance 1, no position occurs twice, and
\* every element after the first is a key of the layer with value false.
C22_PathIsOpenWalk ==
    (pc = "returned" /\ from # to /\ Members(layer, from, to) /\ HopDistance(layer, from, to) >= 0)
        => /\ path[1] = from
           /\ path[Len(path)] = to
           /\ \A i \in 1..(Len(path) - 1) : distance(path[i], path[i + 1]) = 1
           /\ \A i, j \in 1..Len(path) : i # j => path[i] # path[j]
           /\ \A i \in 2..Len(path) : IsOpen(layer, path[i])

\* A returned path of 4 steps or more that sets out from a blocked cell.
C22_Witness ==
    /\ pc = "returned"
    /\ Members(layer, from, to)
    /\ layer[from] = TRUE
    /\ HopDistance(layer, from, to) >= 0
    /\ Len(path) >= 5
    /\ path[1] = from
    /\ path[Len(path)] = to


-----------------------------------------------------------------------------
\* Reachability by pathfinding and by field_of_move.

\* C23: for members from # to, pathfinding(from, to) returns a path whose
\* first element is from if and only if to is in field_of_move(from, k), k
\* being the number of keys of the layer.
C23_PathfindingAgreesWithFieldOfMove ==
    (pc = "returned" /\ from # to /\ Members(layer, from, to))
        => (path[1] = from <=> to \in field_of_move(layer, from, len(layer)).visited)

\* A call that finds a path of 3 steps or more on a layer with a blocked cell.
C23_Witness ==
    /\ pc = "returned"
    /\ from # to
    /\ Members(layer, from, to)
    /\ \E p \in DOMAIN layer : layer[p] = TRUE
    /\ Len(path) >= 4
    /\ path[1] = from
    /\ to \in field_of_move(layer, from, len(layer)).visited

\* A call that finds no path to a cell that is present and not blocked.
C23_WitnessUnreachable ==
    /\ pc = "returned"
    /\ from # to
    /\ Members(layer, from, to)
    /\ layer[to] = FALSE
    /\ path = <<to>>
    /\ to \notin field_of_move(layer, from, len(layer)).visited


-----------------------------------------------------------------------------
\* Termination of pathfinding.

\* The positions that frontier.pop() has returned so far: recorded and no
\* longer in the frontier.
Popped(came, f) == (DOMAIN came) \ (DOMAIN f)

\* The records of a search: the frontier holds recorded positions only, the
\* recorded positions are keys of the layer, and each back-pointer leads to
\* a recorded position of cost one less, `from` alone having None.
C24_Records ==
    pc = "search"
        => /\ DOMAIN frontier \subseteq DOMAIN came_from
           /\ DOMAIN came_from \subseteq DOMAIN layer
           /\ DOMAIN cost_so_far = DOMAIN came_from
           /\ Cardinality(Popped(came_from, frontier)) < Cardinality(DOMAIN layer)
           /\ \A x \in DOMAIN came_from :
                IF x = from
                THEN came_from[x] = None /\ cost_so_far[x] = 0
                ELSE /\ came_from[x] # None
                     /\ came_from[x] \in DOMAIN came_from
                     /\ cost_so_far[x] = cost_so_far[came_from[x]] + 1

\* A statement of the loop.  An iteration that goes on pops exactly one
\* position, overwrites no record and pushes a position exactly when it is
\* recorded for the first time; at the return the walk along the
\* back-pointers of a recorded `to` has ended at `from`.
C24_Step ==
    pc = "search"
        => IF pc' = "search"
           THEN /\ \A x \in DOMAIN came_from :
                     x \in DOMAIN came_from' /\ came_from'[x] = came_from[x]
                /\ (DOMAIN frontier') \ (DOMAIN frontier) = (DOMAIN came_from') \ (DOMAIN came_from)
                /\ Cardinality((DOMAIN frontier) \ (DOMAIN frontier')) = 1
                /\ Cardinality(Popped(came_from', frontier'))
                      = Cardinality(Popped(came_from, frontier)) + 1
           ELSE /\ pc' = "returned"
                /\ to \in DOMAIN came_from
                     => /\ path'[1] = from
                        /\ Len(path') = cost_so_far[to] + 1

\* C24: pathfinding terminates on every finite layer: each position is
\* recorded in came_from and pushed on the frontier at most once, so that the
\* pops are at most as many as the keys of the layer, and the walk along the
\* back-pointers from `to` ends at `from`, whose back-pointer is None; every
\* call returns or panics.
C24_PathfindingTerminates ==
    /\ []C24_Records
    /\ [][C24_Step]_vars
    /\ <>(pc \in {"returned", "panicked"})

\* A search from an open cell of the layer of 19 keys for a blocked one: it
\* has popped every open position and returned when the frontier was empty.
C24_Witness ==
    /\ pc = "returned"
    /\ Cardinality(DOMAIN layer) = 19
    /\ from \in DOMAIN layer /\ layer[from] = FALSE
    /\ to \in DOMAIN layer /\ layer[to] = TRUE
    /\ DOMAIN frontier = {}
    /\ path = <<to>>


-----------------------------------------------------------------------------
\* The chain of a line.

\* Consecutive yielded positions are adjacent and no position is yielded twice.
ConnectedChain(out) ==
    /\ \A i \in 1..(Len(out) - 1) : distance(out[i], out[i + 1]) = 1
    /\ \A i, j \in 1..Len(out) : i # j => out[i] # out[j]

\* C25: for all positions p # q, every two consecutive positions yielded by
\* p.line_to(q) are at distance exactly 1: the line is a connected chain of
\* adjacent hexagons with no repeated and no skipped cell.
C25_LineIsConnectedChain ==
    line_it.start # line_it.end => ConnectedChain(line_out)

\* The same for the lines whose coordinates f32 holds exactly.
LineOfExactEndsIsConnectedChain ==
    (line_it.start # line_it.end /\ line_it.start \in Positions /\ line_it.end \in Positions)
        => ConnectedChain(line_out)


-----------------------------------------------------------------------------
\* The spiral and the layer of new_from_range.

\* The set of the positions a sequence holds.
Range(out) == {out[i] : i \in 1..Len(out)}

\* C26: for N >= 1 the key set of new_from_range(N, c) is the set of the
\* positions c.spiral(N - 1) yields; equivalently c.spiral(N) yields 6 * N
\* positions that are not keys of new_from_range(N, c).
C26_SpiralCoversNewFromRange ==
    spiral_ret = None
        => LET c == spiral_it.origin
               R == spiral_it.radius
           IN /\ Range(spiral_out) = DOMAIN new_from_range(R + 1, c)
              /\ Len(spiral_out) = Cardinality(DOMAIN new_from_range(R + 1, c))
              /\ R >= 1
                   => /\ DOMAIN new_from_range(R, c) \subseteq Range(spiral_out)
                      /\ Cardinality(Range(spiral_out) \ DOMAIN new_from_range(R, c)) = 6 * R
                      /\ Cardinality({i \in 1..Len(spiral_out) :
                                        spiral_out[i] \notin DOMAIN new_from_range(R, c)}) = 6 * R

\* A finished spiral of radius 3 around a center other than the origin: 37
\* positions, 18 of them outside new_from_range(3, c).
C26_Witness ==
    /\ spiral_ret = None
    /\ spiral_it.radius = 3
    /\ spiral_it.origin # ORIGIN
    /\ Len(spiral_out) = 37
    /\ Cardinality(Range(spiral_out) \ DOMAIN new_from_range(3, spiral_it.origin)) = 18


-----------------------------------------------------------------------------
\* The generations of the game-of-life example.

\* The number of the 6 neighbors of p that are keys of g with value true.
TrueNeighbors(g, p) ==
    Cardinality({i \in 1..6 : SixNeighbors(p)[i] \in DOMAIN g /\ g[SixNeighbors(p)[i]] = TRUE})

\* The rule of C27: false for a true cell whose number of true neighbors is
\* not 2, true for a false cell with exactly 2, unchanged otherwise.
LifeRule(v, n) ==
    CASE v = TRUE /\ n # 2 -> FALSE
      [] v = FALSE /\ n = 2 -> TRUE
      [] OTHER -> v

\* The grid main has built once initialize_grid has returned, and the grids
\* of the generations: the positions within GRID_SIZE of the origin.
C27_Grid ==
    /\ generation <= Generations
    /\ life_pc \in {"generations", "done"}
         => DOMAIN grid = {p \in Box(ORIGIN, GRID_SIZE) : distance(p, ORIGIN) <= GRID_SIZE}
    /\ life_pc = "done" => generation = Generations

\* A generation: the key set keeps its size and every cell follows the rule.
C27_Step ==
    generation' # generation
        => /\ generation' = generation + 1
           /\ Cardinality(DOMAIN grid') = Cardinality(DOMAIN grid)
           /\ \A p \in DOMAIN grid :
                p \in DOMAIN grid' /\ grid'[p] = LifeRule(grid[p], TrueNeighbors(grid, p))

\* C27: in the game-of-life driver every generation step terminates and
\* next_generation(grid) returns a grid whose key set has the size of the
\* input grid's, for the grid built by main and for each of the 10
\* generations; a cell's next value is false if it was true with a number
\* of true neighbors other than 2, true if it was false with exactly 2 true
\* neighbors, and unchanged otherwise.
C27_GenerationsKeepKeysAndFollowRule ==
    /\ []C27_Grid
    /\ [][C27_Step]_vars
    /\ <>(life_pc = "done")

\* main has returned after 10 generations of a grid that still has live
\* cells; 6 of its keys were added by initialize_grid.
C27_Witness ==
    /\ life_pc = "done"
    /\ generation = Generations
    /\ Alive(grid) # {}
    /\ Cardinality(DOMAIN grid) = 1 + 3 * GRID_SIZE * (GRID_SIZE + 1)
    /\ Cardinality(DOMAIN grid \ DOMAIN new_from_range(GRID_SIZE, ORIGIN)) = 6 * GRID_SIZE

====
